---- MODULE Spec2Model ----
(***************************************************************************)
(* A model of the mc5 bucket storage engine (mc5_core): one McBucket over  *)
(* its four sled trees, the id generator of MangoChainsaw, and the Label   *)
(* byte encodings.  Every mutating operation of McBucket is one sled       *)
(* multi-tree transaction, so each action below is one committed           *)
(* transaction; the states of the model are the committed states.          *)
(*                                                                         *)
(* Strings are sequences of bytes, a Label is a record of two strings, a   *)
(* document id is the pair Uuid::as_u64_pair() = <<high half, low half>>,  *)
(* and a sled tree is a function from its present keys to their values.    *)
(***************************************************************************)
EXTENDS Integers, Sequences, FiniteSets, TLC

VARIABLES
    documents,    \* McBucket.documents   "<name>::doc":    id -> payload
    docs_labels,  \* McBucket.docs_labels "<name>::labels": id -> Vec<Label>
    labels_kev,   \* McBucket.labels_kev  "<name>::kev":    key=value -> Vec<(u64,u64)>
    labels_vek,   \* McBucket.labels_vek  "<name>::vek":    value=key -> Vec<(u64,u64)>
    idgen,        \* the counter behind sled's Db::generate_id
    calls,        \* how many calls were made on the bucket
    last,         \* the last call made on the bucket and what it returned
    wellformed,   \* no label passed so far holds the separator in its key
    threads,      \* the insert each thread has in flight
    trees,        \* the trees of the sled Db by name, where buckets are told apart
    opened        \* the bucket names opened and not dropped since

vars == <<documents, docs_labels, labels_kev, labels_vek, idgen, calls, last,
          wellformed, threads, trees, opened>>

----------------------------------------------------------------------------
(* Bounds of the model.                                                    *)

\* how many documents are inserted (calls of next_id)
MaxInserts == 2
\* the readings of the clock behind Uuid::now_v6 are 0..MaxTime
MaxTime == 1
\* the longest label list passed to a call
MaxLabels == 2
\* how many calls are made on the bucket
MaxCalls == 3
\* the longest id list passed to get_many
MaxIds == 2
\* how often the transaction of one call is run again
MaxRetries == 2

----------------------------------------------------------------------------
(* Labels (label.rs).                                                      *)

\* the separator byte '=' written by as_bytes / as_bytes_rev
Sep == 61

\* Label::new: no check is made on either string
Label(k, v) == [key |-> k, value |-> v]

as_bytes(l) == l.key \o <<Sep>> \o l.value

as_bytes_rev(l) == l.value \o <<Sep>> \o l.key

\* the strings "a", "b", "a=b" and "a=a"
StrA == <<97>>
StrB == <<98>>
StrAeqB == <<97, 61, 98>>
StrAeqA == <<97, 61, 97>>

\* ("a","b"), ("a","a=b") and ("a=a","b"): the last two share the forward
\* form "a=a=b" and differ in the reverse form
LabAB == Label(StrA, StrB)
LabAxAB == Label(StrA, StrAeqB)
LabAAxB == Label(StrAeqA, StrB)

LabelUniverse == {LabAB, LabAxAB, LabAAxB}

\* a label whose key holds no separator: from_bytes(as_bytes(l)) gives it back
WellFormed(l) == \A i \in 1..Len(l.key) : l.key[i] # Sep

\* a faulty from_bytes, which splits at the last separator
from_bytes_rsplit(s) ==
    IF \E i \in 1..Len(s) : s[i] = Sep
    THEN LET i == CHOOSE j \in 1..Len(s) :
                    s[j] = Sep /\ \A m \in (j + 1)..Len(s) : s[m] # Sep
         IN  <<Label(SubSeq(s, 1, i - 1), SubSeq(s, i + 1, Len(s)))>>
    ELSE <<>>

\* from_bytes: split_once('=') splits at the first separator; Err is <<>>,
\* Ok(l) is <<l>> (every string of the model is valid UTF-8)
from_bytes(s) ==
    IF \E i \in 1..Len(s) : s[i] = Sep
    THEN LET i == CHOOSE j \in 1..Len(s) :
                    s[j] = Sep /\ \A m \in 1..(j - 1) : s[m] # Sep
         IN  <<Label(SubSeq(s, 1, i - 1), SubSeq(s, i + 1, Len(s)))>>
    ELSE <<>>

swap_key_value(l) == Label(l.value, l.key)

\* the label lists a caller passes: any order, any multiplicity
LabelLists == UNION {[1..n -> LabelUniverse] : n \in 0..MaxLabels}

\* the payload of the n-th insert: every document gets a payload of its own
Payload(n) == <<"doc", n>>

\* Option::None of a payload
None == <<>>

\* the order of String (bytewise lexicographic, a proper prefix first)
RECURSIVE BytesLess(_, _)
BytesLess(a, b) ==
    IF b = <<>> THEN FALSE
    ELSE IF a = <<>> THEN TRUE
    ELSE IF Head(a) # Head(b) THEN Head(a) < Head(b)
    ELSE BytesLess(Tail(a), Tail(b))

\* #[derive(PartialOrd, Ord)] on Label: by key, then by value
LabelLess(a, b) ==
    BytesLess(a.key, b.key) \/ (a.key = b.key /\ BytesLess(a.value, b.value))

\* the order of (u64, u64): by the high half, then by the low half
IdLess(a, b) == a[1] < b[1] \/ (a[1] = b[1] /\ BytesLess(a[2], b[2]))

----------------------------------------------------------------------------
(* Vec operations.                                                         *)

\* Vec::sort of a Vec<(u64, u64)>
SortIds(s) ==
    LET rank(i) == Cardinality({j \in 1..Len(s) :
                        IdLess(s[j], s[i]) \/ (~IdLess(s[i], s[j]) /\ j < i)}) + 1
    IN  [r \in 1..Len(s) |-> s[CHOOSE i \in 1..Len(s) : rank(i) = r]]

\* Vec::sort of a Vec<Label>
SortLabels(s) ==
    LET rank(i) == Cardinality({j \in 1..Len(s) :
                        LabelLess(s[j], s[i]) \/ (~LabelLess(s[i], s[j]) /\ j < i)}) + 1
    IN  [r \in 1..Len(s) |-> s[CHOOSE i \in 1..Len(s) : rank(i) = r]]

\* Vec::dedup: drops an element equal to the one before it
Dedup(s) ==
    LET keep == {i \in 1..Len(s) : i = 1 \/ s[i] # s[i - 1]}
    IN  [r \in 1..Cardinality(keep) |->
            s[CHOOSE i \in keep : Cardinality({j \in keep : j <= i}) = r]]

\* Vec::contains
Contains(s, x) == \E i \in 1..Len(s) : s[i] = x

----------------------------------------------------------------------------
(* Ids (mango.rs).                                                         *)

\* u64::to_be_bytes: the 8 bytes of n, most significant first
RECURSIVE BeBytes(_, _)
BeBytes(n, k) ==
    IF k = 0 THEN <<>> ELSE Append(BeBytes(n \div 256, k - 1), n % 256)

to_be_bytes(n) == BeBytes(n, 8)

\* the fold of next_id: byte b goes to acc.0[acc.1], then acc.1 moves on
\* but never past 5
RECURSIVE NodeFold(_, _, _)
NodeFold(bytes, acc, pos) ==
    IF bytes = <<>> THEN acc
    ELSE NodeFold(Tail(bytes),
                  [acc EXCEPT ![pos + 1] = Head(bytes)],
                  IF pos + 1 < 5 THEN pos + 1 ELSE 5)

node_id(n) == NodeFold(to_be_bytes(n), [i \in 1..6 |-> 0], 0)

\* next_id: Uuid::now_v6(&node_id) read as_u64_pair: the high half is the
\* timestamp, the low half ends in the 48 bits of the node id (kept as its
\* six bytes, most significant first)
next_id(now, n) == <<now, node_id(n)>>

\* the ids a caller passes: the ids insert has returned, still stored or
\* deleted, and the ids that differ from one of them in the high half
CallerIds == {next_id(t, n) : t \in 0..MaxTime, n \in 0..(idgen - 1)}

----------------------------------------------------------------------------
(* Trees.                                                                  *)

TreeInsert(t, k, v) == [x \in DOMAIN t \cup {k} |-> IF x = k THEN v ELSE t[x]]

TreeRemove(t, k) == [x \in DOMAIN t \ {k} |-> t[x]]

EmptyTree == [x \in {} |-> <<>>]

\* the four trees a transaction works on
Db == [documents |-> documents, docs_labels |-> docs_labels,
       labels_kev |-> labels_kev, labels_vek |-> labels_vek]

----------------------------------------------------------------------------
(* McBucket (bucket.rs): the two posting-list helpers.                     *)

\* a faulty upsert_label, which forgets docs.dedup()
upsert_label_no_dedup(t, k, id) ==
    IF k \in DOMAIN t
    THEN TreeInsert(t, k, SortIds(Append(t[k], id)))
    ELSE TreeInsert(t, k, <<id>>)

\* a faulty upsert_label, which writes vec![id] over the list it found
upsert_label_overwrite(t, k, id) == TreeInsert(t, k, <<id>>)

\* upsert_label: read the list under k, push id, sort, dedup, write back;
\* a missing list becomes vec![id]
upsert_label(t, k, id) ==
    IF k \in DOMAIN t
    THEN TreeInsert(t, k, Dedup(SortIds(Append(t[k], id))))
    ELSE TreeInsert(t, k, <<id>>)

\* downsert_label: a list of length one is removed with its key whatever it
\* holds; any other list keeps the entries that differ from id in both
\* halves and is written back, also when nothing is left; a missing list
\* is only logged
downsert_label(t, k, id) ==
    IF k \in DOMAIN t
    THEN IF Len(t[k]) = 1
         THEN TreeRemove(t, k)
         ELSE TreeInsert(t, k,
                  SelectSeq(t[k], LAMBDA i : i[1] # id[1] /\ i[2] # id[2]))
    ELSE t

\* the loop "for label in labels { upsert kev; upsert vek }"
RECURSIVE UpsertAll(_, _, _)
UpsertAll(db, labels, id) ==
    IF labels = <<>> THEN db
    ELSE UpsertAll(
            [db EXCEPT
                !.labels_kev = upsert_label(@, as_bytes(Head(labels)), id),
                !.labels_vek = upsert_label(@, as_bytes_rev(Head(labels)), id)],
            Tail(labels), id)

\* the loop "for label in labels { downsert kev; downsert vek }"
RECURSIVE DownsertAll(_, _, _)
DownsertAll(db, labels, id) ==
    IF labels = <<>> THEN db
    ELSE DownsertAll(
            [db EXCEPT
                !.labels_kev = downsert_label(@, as_bytes(Head(labels)), id),
                !.labels_vek = downsert_label(@, as_bytes_rev(Head(labels)), id)],
            Tail(labels), id)

----------------------------------------------------------------------------
(* McBucket: the transactions, as functions from the trees to the trees.   *)

\* insert: the labels are stored as they were passed
insert(db, id, doc, labels) ==
    UpsertAll(
        [db EXCEPT !.documents = TreeInsert(@, id, doc),
                   !.docs_labels = TreeInsert(@, id, labels)],
        labels, id)

\* a faulty delete, which reads the label set where it should remove it
delete_keeps_labels(db, id) ==
    LET d1 == [db EXCEPT !.documents = TreeRemove(@, id)]
    IN  IF id \in DOMAIN db.docs_labels
        THEN DownsertAll(d1, db.docs_labels[id], id)
        ELSE d1

\* a faulty delete, which leaves the posting lists as they are
delete_no_downsert(db, id) ==
    [db EXCEPT !.documents = TreeRemove(@, id),
               !.docs_labels = TreeRemove(@, id)]

\* delete: removes the document, then the label set, and downserts every
\* label of the stored label set
delete(db, id) ==
    LET d1 == [db EXCEPT !.documents = TreeRemove(@, id)]
    IN  IF id \in DOMAIN db.docs_labels
        THEN DownsertAll([d1 EXCEPT !.docs_labels = TreeRemove(@, id)],
                         db.docs_labels[id], id)
        ELSE d1

\* what delete returns: the removed payload, or None
delete_output(db, id) ==
    IF id \in DOMAIN db.documents THEN db.documents[id] ELSE None

\* a faulty add_document_labels, which writes the new labels over the label
\* set where it should merge them into it
add_document_labels_replace(db, id, labels) ==
    UpsertAll(
        IF id \in DOMAIN db.docs_labels
        THEN [db EXCEPT !.docs_labels =
                TreeInsert(@, id, Dedup(SortLabels(labels)))]
        ELSE db,
        labels, id)

\* a faulty add_document_labels, which forgets labels.dedup()
add_document_labels_no_dedup(db, id, labels) ==
    UpsertAll(
        IF id \in DOMAIN db.docs_labels
        THEN [db EXCEPT !.docs_labels =
                TreeInsert(@, id, SortLabels(db.docs_labels[id] \o labels))]
        ELSE db,
        labels, id)

\* add_document_labels: the label set is rewritten only when it exists; the
\* upserts run in either case
add_document_labels(db, id, labels) ==
    UpsertAll(
        IF id \in DOMAIN db.docs_labels
        THEN [db EXCEPT !.docs_labels =
                TreeInsert(@, id,
                    Dedup(SortLabels(db.docs_labels[id] \o labels)))]
        ELSE db,
        labels, id)

\* a faulty remove_document_labels, which removes the payload as well
remove_document_labels_drops_doc(db, id, labels) ==
    DownsertAll(
        IF id \in DOMAIN db.docs_labels
        THEN [db EXCEPT !.documents = TreeRemove(@, id),
                        !.docs_labels =
                TreeInsert(@, id,
                    Dedup(SortLabels(
                        SelectSeq(db.docs_labels[id],
                                  LAMBDA l : ~Contains(labels, l)))))]
        ELSE db,
        labels, id)

\* remove_document_labels: the label set is rewritten only when it exists;
\* the downserts run in either case
remove_document_labels(db, id, labels) ==
    DownsertAll(
        IF id \in DOMAIN db.docs_labels
        THEN [db EXCEPT !.docs_labels =
                TreeInsert(@, id,
                    Dedup(SortLabels(
                        SelectSeq(db.docs_labels[id],
                                  LAMBDA l : ~Contains(labels, l)))))]
        ELSE db,
        labels, id)

----------------------------------------------------------------------------
(* McBucket: the reads.                                                    *)

\* get
get(db, id) == IF id \in DOMAIN db.documents THEN db.documents[id] ELSE None

\* get_document_labels: None is <<>>, Some(v) is <<v>>
get_document_labels(db, id) ==
    IF id \in DOMAIN db.docs_labels THEN <<db.docs_labels[id]>> ELSE <<>>

\* get_label: None is <<>>, Some(v) is <<v>>
get_label(db, label) ==
    IF as_bytes(label) \in DOMAIN db.labels_kev
    THEN <<db.labels_kev[as_bytes(label)]>> ELSE <<>>

\* a faulty get_many, which leaves out the ids that have no document
get_many_skips_absent(db, ids) ==
    LET all == [i \in 1..Len(ids) |-> <<ids[i], get(db, ids[i])>>]
    IN  SelectSeq(all, LAMBDA e : e[2] # None)

\* get_many: one (id, get(id)) entry per id, in the order of ids
get_many(db, ids) == [i \in 1..Len(ids) |-> <<ids[i], get(db, ids[i])>>]

\* p is a prefix of s
IsPrefix(p, s) == Len(p) <= Len(s) /\ SubSeq(s, 1, Len(p)) = p

\* Tree::scan_prefix: the keys of t that start with prefix, in the order of
\* the tree (bytewise lexicographic)
scan_prefix(t, prefix) ==
    LET found == {k \in DOMAIN t : IsPrefix(prefix, k)}
    IN  [r \in 1..Cardinality(found) |->
            CHOOSE k \in found :
                Cardinality({j \in found : BytesLess(j, k)}) = r - 1]

\* label_name_search: every key found in labels_kev is parsed by from_bytes;
\* the first key that does not parse makes the call return the error
label_name_search(db, key) ==
    LET keys == scan_prefix(db.labels_kev, key)
    IN  IF \E i \in 1..Len(keys) : from_bytes(keys[i]) = <<>>
        THEN [err |-> TRUE, val |-> <<>>]
        ELSE [err |-> FALSE,
              val |-> [i \in 1..Len(keys) |-> from_bytes(keys[i])[1]]]

\* label_value_search: every key found in labels_vek is parsed by from_bytes
\* and the parsed label has its two fields swapped
label_value_search(db, value) ==
    LET keys == scan_prefix(db.labels_vek, value)
    IN  IF \E i \in 1..Len(keys) : from_bytes(keys[i]) = <<>>
        THEN [err |-> TRUE, val |-> <<>>]
        ELSE [err |-> FALSE,
              val |-> [i \in 1..Len(keys) |->
                          swap_key_value(from_bytes(keys[i])[1])]]

\* the first loop of search_inclusive: the lists found, in the order of the
\* query; a label with no list adds nothing
RECURSIVE Middle(_, _)
Middle(kev, labels) ==
    IF labels = <<>> THEN <<>>
    ELSE (IF as_bytes(Head(labels)) \in DOMAIN kev
          THEN <<kev[as_bytes(Head(labels))]>> ELSE <<>>)
         \o Middle(kev, Tail(labels))

RECURSIVE Flatten(_)
Flatten(lists) ==
    IF lists = <<>> THEN <<>> ELSE Head(lists) \o Flatten(Tail(lists))

\* the second loop: results.retain(|id| list.contains(id)) for each list
RECURSIVE RetainAll(_, _)
RetainAll(results, lists) ==
    IF lists = <<>> THEN results
    ELSE RetainAll(SelectSeq(results, LAMBDA id : Contains(Head(lists), id)),
                   Tail(lists))

search_inclusive(db, labels) ==
    LET middle == Middle(db.labels_kev, labels)
    IN  RetainAll(Dedup(SortIds(Flatten(middle))), middle)

----------------------------------------------------------------------------
(* The bucket as a state machine: one action per call.                     *)

NoId == <<>>

\* a call: its name, its id, label list and payload arguments (NoId, <<>>
\* and None where it has none), and the value it returned
Call(op, id, labels, doc, ret) ==
    [op |-> op, id |-> id, labels |-> labels, doc |-> doc, ret |-> ret]

\* the threads that call the bucket at the same time
Threads == {1, 2}

\* a thread with no call in flight
Idle ==
    [pc |-> "idle", id |-> NoId, first |-> NoId, now |-> 0, doc |-> None,
     labels |-> <<>>, snap |-> EmptyTree, out |-> EmptyTree, tries |-> 0]

Commit(db) ==
    /\ documents' = db.documents
    /\ docs_labels' = db.docs_labels
    /\ labels_kev' = db.labels_kev
    /\ labels_vek' = db.labels_vek

Init ==
    /\ documents = EmptyTree
    /\ docs_labels = EmptyTree
    /\ labels_kev = EmptyTree
    /\ labels_vek = EmptyTree
    /\ idgen = 0
    /\ calls = 0
    /\ last = Call("get_bucket", NoId, <<>>, None, <<>>)
    /\ wellformed = TRUE
    /\ threads = [th \in Threads |-> Idle]
    /\ trees = EmptyTree
    /\ opened = {}

\* one more call is made, with these labels, and runs to its end: no
\* transaction is left in flight
Called(labels) ==
    /\ calls < MaxCalls
    /\ calls' = calls + 1
    /\ wellformed' = (wellformed /\ \A i \in 1..Len(labels) : WellFormed(labels[i]))
    /\ UNCHANGED <<threads, trees, opened>>

Insert ==
    /\ idgen < MaxInserts
    /\ \E now \in 0..MaxTime, labels \in LabelLists :
        LET id == next_id(now, idgen)
            doc == Payload(idgen)
        IN  /\ Called(labels)
            /\ idgen' = idgen + 1
            /\ Commit(insert(Db, id, doc, labels))
            /\ last' = Call("insert", id, labels, doc, id)

Delete ==
    /\ \E id \in CallerIds :
        /\ Called(<<>>)
        /\ Commit(delete(Db, id))
        /\ last' = Call("delete", id, <<>>, None, delete_output(Db, id))
    /\ UNCHANGED idgen

AddDocumentLabels ==
    /\ \E id \in CallerIds, labels \in LabelLists :
        /\ Called(labels)
        /\ Commit(add_document_labels(Db, id, labels))
        /\ last' = Call("add_document_labels", id, labels, None, <<>>)
    /\ UNCHANGED idgen

RemoveDocumentLabels ==
    /\ \E id \in CallerIds, labels \in LabelLists :
        /\ Called(labels)
        /\ Commit(remove_document_labels(Db, id, labels))
        /\ last' = Call("remove_document_labels", id, labels, None, <<>>)
    /\ UNCHANGED idgen

Get ==
    /\ \E id \in CallerIds :
        /\ Called(<<>>)
        /\ last' = Call("get", id, <<>>, None, get(Db, id))
    /\ UNCHANGED <<documents, docs_labels, labels_kev, labels_vek, idgen>>

GetDocumentLabels ==
    /\ \E id \in CallerIds :
        /\ Called(<<>>)
        /\ last' = Call("get_document_labels", id, <<>>, None,
                        get_document_labels(Db, id))
    /\ UNCHANGED <<documents, docs_labels, labels_kev, labels_vek, idgen>>

SearchInclusive ==
    /\ \E labels \in LabelLists :
        /\ Called(labels)
        /\ last' = Call("search_inclusive", NoId, labels, None,
                        search_inclusive(Db, labels))
    /\ UNCHANGED <<documents, docs_labels, labels_kev, labels_vek, idgen>>

Next ==
    \/ Insert
    \/ Delete
    \/ AddDocumentLabels
    \/ RemoveDocumentLabels
    \/ Get
    \/ GetDocumentLabels
    \/ SearchInclusive

Spec == Init /\ [][Next]_vars

----------------------------------------------------------------------------
(* The bucket with its gathering read and its two prefix scans.            *)

\* the id lists a caller passes to get_many
IdLists == UNION {[1..n -> CallerIds] : n \in 0..MaxIds}

\* the prefixes a caller passes to a scan: "", "a", "b" and "a=a"
Prefixes == {<<>>, StrA, StrB, StrAeqA}

GetMany ==
    /\ \E ids \in IdLists :
        /\ Called(<<>>)
        /\ last' = [op |-> "get_many", id |-> NoId, labels |-> <<>>,
                    doc |-> None, ret |-> get_many(Db, ids), ids |-> ids]
    /\ UNCHANGED <<documents, docs_labels, labels_kev, labels_vek, idgen>>

LabelNameSearch ==
    /\ \E key \in Prefixes :
        /\ Called(<<>>)
        /\ last' = [op |-> "label_name_search", id |-> NoId, labels |-> <<>>,
                    doc |-> None, ret |-> label_name_search(Db, key),
                    prefix |-> key]
    /\ UNCHANGED <<documents, docs_labels, labels_kev, labels_vek, idgen>>

LabelValueSearch ==
    /\ \E value \in Prefixes :
        /\ Called(<<>>)
        /\ last' = [op |-> "label_value_search", id |-> NoId, labels |-> <<>>,
                    doc |-> None, ret |-> label_value_search(Db, value),
                    prefix |-> value]
    /\ UNCHANGED <<documents, docs_labels, labels_kev, labels_vek, idgen>>

NextReads ==
    \/ Insert
    \/ Delete
    \/ AddDocumentLabels
    \/ RemoveDocumentLabels
    \/ Get
    \/ GetDocumentLabels
    \/ GetMany
    \/ LabelNameSearch
    \/ LabelValueSearch

SpecReads == Init /\ [][NextReads]_vars

----------------------------------------------------------------------------
(* The transactions with their failures: a closure works on staged trees   *)
(* and returns Ok or an error, and the trees staged by a closure that       *)
(* returned an error are never committed.                                   *)

\* values that MangoChainsaw::de does not decode: bytes under a key of
\* labels_kev or labels_vek that are no Vec<(u64, u64)>, and bytes under a
\* key of docs_labels that are no Vec<Label>
GarbageIds == <<<<-1, <<>>>>>>

GarbageLabels == <<[key |-> <<-1>>, value |-> <<>>]>>

\* the types T a caller asks delete::<T> to decode the payload as; Payload(n)
\* was serialized from the first of them
Types == {"doc", "raw"}

\* MangoChainsaw::de fails on the payload, on a posting list, on a label set
de_doc_fails(raw, T) == raw[1] # T

de_ids_fail(t, k) == k \in DOMAIN t /\ t[k] = GarbageIds

de_labels_fail(t, id) == id \in DOMAIN t /\ t[id] = GarbageLabels

\* what a closure returns: the trees it staged, and whether it returned Err
Staged(db, err) == [db |-> db, err |-> err]

\* the upsert loop inside a closure: the first list that does not decode
\* ends it with the error, the writes before it staged
RECURSIVE UpsertAllTx(_, _, _)
UpsertAllTx(db, labels, id) ==
    IF labels = <<>> THEN Staged(db, FALSE)
    ELSE LET k == as_bytes(Head(labels))
             r == as_bytes_rev(Head(labels))
             d1 == [db EXCEPT !.labels_kev = upsert_label(@, k, id)]
             d2 == [d1 EXCEPT !.labels_vek = upsert_label(@, r, id)]
         IN  IF de_ids_fail(db.labels_kev, k) THEN Staged(db, TRUE)
             ELSE IF de_ids_fail(d1.labels_vek, r) THEN Staged(d1, TRUE)
             ELSE UpsertAllTx(d2, Tail(labels), id)

\* the downsert loop inside a closure
RECURSIVE DownsertAllTx(_, _, _)
DownsertAllTx(db, labels, id) ==
    IF labels = <<>> THEN Staged(db, FALSE)
    ELSE LET k == as_bytes(Head(labels))
             r == as_bytes_rev(Head(labels))
             d1 == [db EXCEPT !.labels_kev = downsert_label(@, k, id)]
             d2 == [d1 EXCEPT !.labels_vek = downsert_label(@, r, id)]
         IN  IF de_ids_fail(db.labels_kev, k) THEN Staged(db, TRUE)
             ELSE IF de_ids_fail(d1.labels_vek, r) THEN Staged(d1, TRUE)
             ELSE DownsertAllTx(d2, Tail(labels), id)

\* the closure of insert
insert_tx(db, id, doc, labels) ==
    UpsertAllTx([db EXCEPT !.documents = TreeInsert(@, id, doc),
                           !.docs_labels = TreeInsert(@, id, labels)],
                labels, id)

\* a faulty closure of delete, which skips the downserts when the label set
\* does not decode and returns Ok
delete_tx_swallows(db, id, T) ==
    LET d1 == [db EXCEPT !.documents = TreeRemove(@, id)]
        d2 == [d1 EXCEPT !.docs_labels = TreeRemove(@, id)]
    IN  IF id \in DOMAIN db.documents /\ de_doc_fails(db.documents[id], T)
        THEN Staged(d1, TRUE)
        ELSE IF id \notin DOMAIN db.docs_labels THEN Staged(d1, FALSE)
        ELSE IF de_labels_fail(db.docs_labels, id) THEN Staged(d2, FALSE)
        ELSE DownsertAllTx(d2, db.docs_labels[id], id)

\* the closure of delete::<T>: the payload is removed and then decoded, the
\* label set is removed and then decoded
delete_tx(db, id, T) ==
    LET d1 == [db EXCEPT !.documents = TreeRemove(@, id)]
        d2 == [d1 EXCEPT !.docs_labels = TreeRemove(@, id)]
    IN  IF id \in DOMAIN db.documents /\ de_doc_fails(db.documents[id], T)
        THEN Staged(d1, TRUE)
        ELSE IF id \notin DOMAIN db.docs_labels THEN Staged(d1, FALSE)
        ELSE IF de_labels_fail(db.docs_labels, id) THEN Staged(d2, TRUE)
        ELSE DownsertAllTx(d2, db.docs_labels[id], id)

\* the closure of add_document_labels: the label set is removed, decoded,
\* and written back merged
add_document_labels_tx(db, id, labels) ==
    IF id \notin DOMAIN db.docs_labels THEN UpsertAllTx(db, labels, id)
    ELSE IF de_labels_fail(db.docs_labels, id)
    THEN Staged([db EXCEPT !.docs_labels = TreeRemove(@, id)], TRUE)
    ELSE UpsertAllTx(
            [db EXCEPT !.docs_labels =
                TreeInsert(@, id,
                    Dedup(SortLabels(db.docs_labels[id] \o labels)))],
            labels, id)

\* the closure of remove_document_labels
remove_document_labels_tx(db, id, labels) ==
    IF id \notin DOMAIN db.docs_labels THEN DownsertAllTx(db, labels, id)
    ELSE IF de_labels_fail(db.docs_labels, id)
    THEN Staged([db EXCEPT !.docs_labels = TreeRemove(@, id)], TRUE)
    ELSE DownsertAllTx(
            [db EXCEPT !.docs_labels =
                TreeInsert(@, id,
                    Dedup(SortLabels(
                        SelectSeq(db.docs_labels[id],
                                  LAMBDA l : ~Contains(labels, l)))))],
            labels, id)

\* Transactional::transaction followed by `?`: the staged trees are
\* committed when the closure returned Ok; when it returned a Storage error
\* nothing is committed and the call returns the error
transaction(db, out) == IF out.err THEN db ELSE out.db

\* a call that can fail: its arguments, what it returned, whether it returned
\* an error, and whether its closure had staged a change when it ended
TxCall(op, id, labels, doc, ty, ret, out) ==
    [op |-> op, id |-> id, labels |-> labels, doc |-> doc, ty |-> ty,
     ret |-> IF out.err THEN None ELSE ret,
     err |-> out.err, staged |-> out.db # Db]

InsertTx ==
    /\ idgen < MaxInserts
    /\ \E now \in 0..MaxTime, labels \in LabelLists :
        LET id == next_id(now, idgen)
            doc == Payload(idgen)
            out == insert_tx(Db, id, doc, labels)
        IN  /\ Called(labels)
            /\ idgen' = idgen + 1
            /\ Commit(transaction(Db, out))
            /\ last' = TxCall("insert", id, labels, doc, "doc", id, out)

DeleteTx ==
    /\ \E id \in CallerIds, T \in Types :
        LET out == delete_tx(Db, id, T)
        IN  /\ Called(<<>>)
            /\ Commit(transaction(Db, out))
            /\ last' = TxCall("delete", id, <<>>, None, T,
                              delete_output(Db, id), out)
    /\ UNCHANGED idgen

AddDocumentLabelsTx ==
    /\ \E id \in CallerIds, labels \in LabelLists :
        LET out == add_document_labels_tx(Db, id, labels)
        IN  /\ Called(labels)
            /\ Commit(transaction(Db, out))
            /\ last' = TxCall("add_document_labels", id, labels, None, "doc",
                              <<>>, out)
    /\ UNCHANGED idgen

RemoveDocumentLabelsTx ==
    /\ \E id \in CallerIds, labels \in LabelLists :
        LET out == remove_document_labels_tx(Db, id, labels)
        IN  /\ Called(labels)
            /\ Commit(transaction(Db, out))
            /\ last' = TxCall("remove_document_labels", id, labels, None,
                              "doc", <<>>, out)
    /\ UNCHANGED idgen

\* other code that holds the sled Db writes, under a key of one of the index
\* trees or of docs_labels, bytes that do not decode
ForeignWrite ==
    /\ Called(<<>>)
    /\ \/ \E k \in DOMAIN labels_kev :
            /\ labels_kev' = TreeInsert(labels_kev, k, GarbageIds)
            /\ UNCHANGED <<docs_labels, labels_vek>>
       \/ \E k \in DOMAIN labels_vek :
            /\ labels_vek' = TreeInsert(labels_vek, k, GarbageIds)
            /\ UNCHANGED <<docs_labels, labels_kev>>
       \/ \E id \in DOMAIN docs_labels :
            /\ docs_labels' = TreeInsert(docs_labels, id, GarbageLabels)
            /\ UNCHANGED <<labels_kev, labels_vek>>
    /\ last' = [op |-> "foreign_write", id |-> NoId, labels |-> <<>>,
                doc |-> None, ty |-> "doc", ret |-> None, err |-> FALSE,
                staged |-> FALSE]
    /\ UNCHANGED <<documents, idgen>>

NextErr ==
    \/ InsertTx
    \/ DeleteTx
    \/ AddDocumentLabelsTx
    \/ RemoveDocumentLabelsTx
    \/ ForeignWrite

SpecErr == Init /\ [][NextErr]_vars

----------------------------------------------------------------------------
(* Inserts of two threads at the same time.  The transaction of a call     *)
(* runs its closure on the trees as committed when it starts, and commits   *)
(* what the closure staged unless the trees have changed since; on a        *)
(* conflict the closure is run again.                                       *)

\* a faulty retry, which allocates a new id for the closure that is run again
retry_id_fresh(id, fresh) == fresh

\* the id a closure that is run again works with: `id` was computed before
\* .transaction and is captured by the closure
retry_id(id, fresh) == id

\* a faulty conflict check, which lets every staged write through
conflicts_never(snap, db) == FALSE

\* the transaction conflicts when a tree it works on was committed to since
\* its closure started
conflicts(snap, db) == snap # db

\* insert up to .transaction: the id is allocated, the payload and the
\* labels are serialized
TxBegin(th) ==
    /\ threads[th].pc = "idle"
    /\ idgen < MaxInserts
    /\ \E now \in 0..MaxTime, labels \in LabelLists :
        threads' = [threads EXCEPT ![th] =
            [Idle EXCEPT !.pc = "ready", !.id = next_id(now, idgen),
                         !.first = next_id(now, idgen), !.now = now,
                         !.doc = Payload(idgen), !.labels = labels]]
    /\ idgen' = idgen + 1
    /\ UNCHANGED <<documents, docs_labels, labels_kev, labels_vek, calls, last,
                   wellformed, trees, opened>>

\* the closure runs on the committed trees and stages its writes
TxAttempt(th) ==
    /\ threads[th].pc = "ready"
    /\ UNCHANGED <<trees, opened>>
    /\ threads' = [threads EXCEPT ![th] =
            [@ EXCEPT !.pc = "staged", !.snap = Db,
                      !.out = insert_tx(Db, threads[th].id, threads[th].doc,
                                        threads[th].labels)]]
    /\ UNCHANGED <<documents, docs_labels, labels_kev, labels_vek, idgen, calls,
                   last, wellformed>>

\* the staged writes are committed and insert returns the id
TxCommit(th) ==
    /\ threads[th].pc = "staged"
    /\ ~conflicts(threads[th].snap, Db)
    /\ Commit(transaction(Db, threads[th].out))
    /\ UNCHANGED <<trees, opened>>
    /\ threads' = [threads EXCEPT ![th] =
            [@ EXCEPT !.pc = "done", !.snap = EmptyTree, !.out = EmptyTree]]
    /\ UNCHANGED <<idgen, calls, last, wellformed>>

\* the staged writes are dropped and the closure is run again, on a conflict
\* or for any other reason the engine has
TxRetry(th) ==
    /\ threads[th].pc = "staged"
    /\ threads[th].tries < MaxRetries
    /\ UNCHANGED <<trees, opened>>
    /\ threads' = [threads EXCEPT ![th] =
            [@ EXCEPT !.pc = "ready", !.snap = EmptyTree, !.out = EmptyTree,
                      !.tries = @ + 1,
                      !.id = retry_id(@, next_id(threads[th].now,
                                          MaxInserts + threads[th].tries))]]
    /\ UNCHANGED <<documents, docs_labels, labels_kev, labels_vek, idgen, calls,
                   last, wellformed>>

NextTx ==
    \E th \in Threads :
        \/ TxBegin(th)
        \/ TxAttempt(th)
        \/ TxCommit(th)
        \/ TxRetry(th)

SpecTx == Init /\ [][NextTx]_vars

----------------------------------------------------------------------------
(* The four mutating calls of two threads at the same time.  A thread      *)
(* makes its calls one after the other; the transaction of a call runs its *)
(* closure on the trees as committed when it starts, commits what the      *)
(* closure staged if the trees have not changed since, and runs the        *)
(* closure again if they have.                                             *)

\* a thread with no call made yet
IdleOp ==
    [pc |-> "idle", op |-> "none", id |-> NoId, doc |-> None, labels |-> <<>>,
     seen |-> EmptyTree, snap |-> EmptyTree, out |-> EmptyTree,
     output |-> None, tries |-> 0]

\* the label lists the threads pass
OpLabelLists == {labels \in LabelLists : Len(labels) < MaxLabels}

\* the bucket after one insert, with no call in flight
InitOps ==
    \E t0 \in 0..MaxTime, labels \in OpLabelLists :
        LET db == insert([documents |-> EmptyTree, docs_labels |-> EmptyTree,
                          labels_kev |-> EmptyTree, labels_vek |-> EmptyTree],
                         next_id(t0, 0), Payload(0), labels)
        IN  /\ documents = db.documents
            /\ docs_labels = db.docs_labels
            /\ labels_kev = db.labels_kev
            /\ labels_vek = db.labels_vek
            /\ idgen = 1
            /\ calls = 1
            /\ last = Call("insert", next_id(t0, 0), labels, Payload(0),
                           next_id(t0, 0))
            /\ wellformed = \A i \in 1..Len(labels) : WellFormed(labels[i])
            /\ threads = [th \in Threads |-> IdleOp]
            /\ trees = EmptyTree
            /\ opened = {}

\* a faulty closure, which keeps what its first run read in a cell outside
\* the closure and works on that when it is run again
closure_view_cached(seen, db) == IF seen = EmptyTree THEN db ELSE seen

\* the trees a run of a closure reads and writes: the transactional trees
\* it is handed, whatever an earlier run has seen
closure_view(seen, db) == db

\* the closure of the call of a thread, on the trees db
closure(c, db) ==
    CASE c.op = "insert" -> insert_tx(db, c.id, c.doc, c.labels)
      [] c.op = "delete" -> delete_tx(db, c.id, "doc")
      [] c.op = "add_document_labels" ->
            add_document_labels_tx(db, c.id, c.labels)
      [] c.op = "remove_document_labels" ->
            remove_document_labels_tx(db, c.id, c.labels)

\* the cell `output` of delete after a run of its closure: it is created
\* before .transaction, written when docs.remove finds the payload, and
\* left as it is when it finds none
delete_output_tx(output, db, id) ==
    IF id \in DOMAIN db.documents THEN db.documents[id] ELSE output

\* a call is made by thread th, up to .transaction
OpCalled(th, op, id, doc, labels) ==
    /\ threads[th].pc \in {"idle", "done"}
    /\ calls < MaxCalls
    /\ calls' = calls + 1
    /\ UNCHANGED <<trees, opened>>
    /\ threads' = [threads EXCEPT ![th] =
            [IdleOp EXCEPT !.pc = "ready", !.op = op, !.id = id, !.doc = doc,
                           !.labels = labels]]
    /\ UNCHANGED <<documents, docs_labels, labels_kev, labels_vek, last,
                   wellformed>>

OpInsert(th) ==
    /\ idgen < MaxInserts
    /\ \E now \in 0..MaxTime, labels \in OpLabelLists :
        OpCalled(th, "insert", next_id(now, idgen), Payload(idgen), labels)
    /\ idgen' = idgen + 1

OpDelete(th) ==
    /\ \E id \in CallerIds : OpCalled(th, "delete", id, None, <<>>)
    /\ UNCHANGED idgen

OpAddDocumentLabels(th) ==
    /\ \E id \in CallerIds, labels \in OpLabelLists :
        OpCalled(th, "add_document_labels", id, None, labels)
    /\ UNCHANGED idgen

OpRemoveDocumentLabels(th) ==
    /\ \E id \in CallerIds, labels \in OpLabelLists :
        OpCalled(th, "remove_document_labels", id, None, labels)
    /\ UNCHANGED idgen

\* the closure runs and stages its writes
OpAttempt(th) ==
    /\ threads[th].pc = "ready"
    /\ UNCHANGED <<trees, opened>>
    /\ threads' = [threads EXCEPT ![th] =
            [@ EXCEPT !.pc = "staged", !.snap = Db,
                      !.seen = IF @ = EmptyTree THEN Db ELSE @,
                      !.out = closure(threads[th],
                                      closure_view(threads[th].seen, Db)),
                      !.output =
                          IF threads[th].op = "delete"
                          THEN delete_output_tx(threads[th].output,
                                   closure_view(threads[th].seen, Db),
                                   threads[th].id)
                          ELSE threads[th].output]]
    /\ UNCHANGED <<documents, docs_labels, labels_kev, labels_vek, idgen, calls,
                   last, wellformed>>

\* the staged writes are committed and the call returns
OpCommit(th) ==
    /\ threads[th].pc = "staged"
    /\ ~conflicts(threads[th].snap, Db)
    /\ Commit(transaction(Db, threads[th].out))
    /\ UNCHANGED <<trees, opened>>
    /\ threads' = [threads EXCEPT ![th] =
            [@ EXCEPT !.pc = "done", !.snap = EmptyTree, !.out = EmptyTree,
                      !.seen = EmptyTree]]
    /\ UNCHANGED <<idgen, calls, last, wellformed>>

\* the staged writes are dropped and the closure is run again
OpRetry(th) ==
    /\ threads[th].pc = "staged"
    /\ conflicts(threads[th].snap, Db)
    /\ UNCHANGED <<trees, opened>>
    /\ threads' = [threads EXCEPT ![th] =
            [@ EXCEPT !.pc = "ready", !.snap = EmptyTree, !.out = EmptyTree,
                      !.tries = @ + 1]]
    /\ UNCHANGED <<documents, docs_labels, labels_kev, labels_vek, idgen, calls,
                   last, wellformed>>

NextOps ==
    \E th \in Threads :
        \/ OpInsert(th)
        \/ OpDelete(th)
        \/ OpAddDocumentLabels(th)
        \/ OpRemoveDocumentLabels(th)
        \/ OpAttempt(th)
        \/ OpCommit(th)
        \/ OpRetry(th)

SpecOps == InitOps /\ [][NextOps]_vars

----------------------------------------------------------------------------
(* MangoChainsaw (mango.rs): the buckets of one sled Db.  A bucket is its  *)
(* four trees "<name>::doc", "<name>::kev", "<name>::vek" and              *)
(* "<name>::labels"; the Db also holds sled's default tree.                *)

\* the "::" of the tree names
TreeSep == <<58, 58>>

\* "doc", "kev", "vek" and "labels", in the order McBucket::new opens the
\* trees
SuffixesNew ==
    <<<<100, 111, 99>>, <<107, 101, 118>>, <<118, 101, 107>>,
      <<108, 97, 98, 101, 108, 115>>>>

\* format!("{name}::doc") and the like
tree_name(name, suffix) == name \o TreeSep \o suffix

\* the names callers give their buckets: "a", "b", "a:" and "a::b"
BucketNames == {StrA, StrB, <<97, 58>>, <<97, 58, 58, 98>>}

\* the name of the tree every sled Db has: "__sled__default"
DefaultTree ==
    <<95, 95, 115, 108, 101, 100, 95, 95, 100, 101, 102, 97, 117, 108, 116>>

\* Db::open_tree: the tree of that name, created empty when there is none
open_tree(ts, n) == IF n \in DOMAIN ts THEN ts ELSE TreeInsert(ts, n, EmptyTree)

\* Db::drop_tree: the tree is removed; Ok(false) when there is none
drop_tree(ts, n) == TreeRemove(ts, n)

\* McBucket::new: the four trees are opened, in this order
RECURSIVE OpenAll(_, _, _)
OpenAll(ts, name, i) ==
    IF i > Len(SuffixesNew) THEN ts
    ELSE OpenAll(open_tree(ts, tree_name(name, SuffixesNew[i])), name, i + 1)

get_bucket(ts, name) == OpenAll(ts, name, 1)

\* "doc", "kev", "vek" and "labels" as the positions of SuffixesNew, in the
\* order McBucket::drop_bucket drops the trees
DropOrder == <<1, 2, 3, 4>>

\* McBucket::drop_bucket up to its n-th drop_tree
RECURSIVE DropFirst(_, _, _)
DropFirst(ts, name, n) ==
    IF n = 0 THEN ts
    ELSE drop_tree(DropFirst(ts, name, n - 1),
                   tree_name(name, SuffixesNew[DropOrder[n]]))

\* MangoChainsaw::drop_bucket: the bucket is opened, then its trees are
\* dropped one by one; n of the drops are made before the engine fails,
\* all of them when it does not
drop_bucket(ts, name, n) == DropFirst(get_bucket(ts, name), name, n)

\* str::split_once("::"): where the first "::" of s starts, 0 when s has none
FindSep(s) ==
    LET hits == {i \in 1..(Len(s) - 1) : SubSeq(s, i, i + 1) = TreeSep}
    IN  IF hits = {} THEN 0 ELSE CHOOSE i \in hits : \A j \in hits : i <= j

\* list_buckets: of every tree name with a "::" the part before the first
\* one, sorted and without duplicates
list_buckets(ts) ==
    LET found == {SubSeq(n, 1, FindSep(n) - 1) :
                    n \in {m \in DOMAIN ts : FindSep(m) # 0}}
    IN  [r \in 1..Cardinality(found) |->
            CHOOSE k \in found :
                Cardinality({j \in found : BytesLess(j, k)}) = r - 1]

\* the four trees of a bucket handle McBucket::new returns
BucketDb(ts, name) ==
    [documents |-> ts[tree_name(name, SuffixesNew[1])],
     labels_kev |-> ts[tree_name(name, SuffixesNew[2])],
     labels_vek |-> ts[tree_name(name, SuffixesNew[3])],
     docs_labels |-> ts[tree_name(name, SuffixesNew[4])]]

\* the Db with the four trees of the bucket replaced
WithBucket(ts, name, db) ==
    [n \in DOMAIN ts |->
        IF n = tree_name(name, SuffixesNew[1]) THEN db.documents
        ELSE IF n = tree_name(name, SuffixesNew[2]) THEN db.labels_kev
        ELSE IF n = tree_name(name, SuffixesNew[3]) THEN db.labels_vek
        ELSE IF n = tree_name(name, SuffixesNew[4]) THEN db.docs_labels
        ELSE ts[n]]

InitBuckets ==
    /\ documents = EmptyTree
    /\ docs_labels = EmptyTree
    /\ labels_kev = EmptyTree
    /\ labels_vek = EmptyTree
    /\ idgen = 0
    /\ calls = 0
    /\ last = [op |-> "new", name |-> <<>>, err |-> FALSE, ret |-> <<>>]
    /\ wellformed = TRUE
    /\ threads = [th \in Threads |-> Idle]
    /\ trees = [n \in {DefaultTree} |-> EmptyTree]
    /\ opened = {}

\* one more call is made on the MangoChainsaw
CalledDb ==
    /\ calls < MaxCalls
    /\ calls' = calls + 1
    /\ UNCHANGED <<documents, docs_labels, labels_kev, labels_vek, wellformed,
                   threads>>

GetBucket ==
    /\ CalledDb
    /\ \E name \in BucketNames :
        /\ trees' = get_bucket(trees, name)
        /\ opened' = opened \cup {name}
        /\ last' = [op |-> "get_bucket", name |-> name, err |-> FALSE,
                    ret |-> <<>>]
    /\ UNCHANGED idgen

\* get_bucket(name)?.insert(doc, labels)
BucketInsert ==
    /\ CalledDb
    /\ idgen < MaxInserts
    /\ \E name \in BucketNames, now \in 0..MaxTime, labels \in OpLabelLists :
        LET ts == get_bucket(trees, name)
            id == next_id(now, idgen)
        IN  /\ trees' = WithBucket(ts, name,
                            insert(BucketDb(ts, name), id, Payload(idgen),
                                   labels))
            /\ opened' = opened \cup {name}
            /\ last' = [op |-> "insert", name |-> name, err |-> FALSE,
                        ret |-> id]
    /\ idgen' = idgen + 1

DropBucket ==
    /\ CalledDb
    /\ \E name \in BucketNames, n \in 0..Len(DropOrder) :
        /\ trees' = drop_bucket(trees, name, n)
        /\ opened' = IF n = Len(DropOrder) THEN opened \ {name}
                     ELSE opened \cup {name}
        /\ last' = [op |-> "drop_bucket", name |-> name,
                    err |-> n < Len(DropOrder), ret |-> <<>>]
    /\ UNCHANGED idgen

ListBuckets ==
    /\ CalledDb
    /\ last' = [op |-> "list_buckets", name |-> <<>>, err |-> FALSE,
                ret |-> list_buckets(trees)]
    /\ UNCHANGED <<idgen, trees, opened>>

NextBuckets ==
    \/ GetBucket
    \/ BucketInsert
    \/ DropBucket
    \/ ListBuckets

SpecBuckets == InitBuckets /\ [][NextBuckets]_vars

----------------------------------------------------------------------------
(* search_inclusive over an engine whose lookups may fail.                  *)

\* the first loop of search_inclusive when labels_kev.get returns Err for
\* the labels at the positions in failing: the Err arm logs and adds
\* nothing, as the Ok(None) arm does
RECURSIVE MiddleLookup(_, _, _, _)
MiddleLookup(kev, labels, failing, i) ==
    IF i > Len(labels) THEN <<>>
    ELSE (IF i \notin failing /\ as_bytes(labels[i]) \in DOMAIN kev
          THEN <<kev[as_bytes(labels[i])]>> ELSE <<>>)
         \o MiddleLookup(kev, labels, failing, i + 1)

search_inclusive_lookup(db, labels, failing) ==
    LET middle == MiddleLookup(db.labels_kev, labels, failing, 1)
    IN  RetainAll(Dedup(SortIds(Flatten(middle))), middle)

\* search_inclusive, with the positions of the query at which the lookup
\* failed
SearchInclusiveLookup ==
    /\ \E labels \in LabelLists, failing \in SUBSET (1..MaxLabels) :
        /\ failing \subseteq 1..Len(labels)
        /\ Called(labels)
        /\ last' = [op |-> "search_inclusive", id |-> NoId, labels |-> labels,
                    doc |-> None, failing |-> failing,
                    ret |-> search_inclusive_lookup(Db, labels, failing)]
    /\ UNCHANGED <<documents, docs_labels, labels_kev, labels_vek, idgen>>

NextLookup ==
    \/ Insert
    \/ Delete
    \/ AddDocumentLabels
    \/ RemoveDocumentLabels
    \/ SearchInclusiveLookup

SpecLookup == Init /\ [][NextLookup]_vars

----------------------------------------------------------------------------
(* The id generator over a long-lived store.                               *)

\* the values the counter of generate_id has reached in a store whose first
\* document is still stored: it has made 1, 2, 255 or 256 inserts
StartCounters == {1, 2, 255, 256}

\* the store after insert(Payload(0), []) at time t0 and some more inserts
\* of documents without labels that were deleted again
InitIds ==
    \E t0 \in 0..MaxTime, c \in StartCounters :
        LET db == insert([documents |-> EmptyTree, docs_labels |-> EmptyTree,
                          labels_kev |-> EmptyTree, labels_vek |-> EmptyTree],
                         next_id(t0, 0), Payload(0), <<>>)
        IN  /\ documents = db.documents
            /\ docs_labels = db.docs_labels
            /\ labels_kev = db.labels_kev
            /\ labels_vek = db.labels_vek
            /\ idgen = c
            /\ calls = 0
            /\ last = Call("insert", next_id(t0, 0), <<>>, Payload(0),
                           next_id(t0, 0))
            /\ wellformed = TRUE
            /\ threads = [th \in Threads |-> Idle]
            /\ trees = EmptyTree
            /\ opened = {}

\* insert, with the counter wherever it stands
InsertIds ==
    \E now \in 0..MaxTime, labels \in LabelLists :
        LET id == next_id(now, idgen)
            doc == Payload(idgen)
        IN  /\ Called(labels)
            /\ idgen' = idgen + 1
            /\ Commit(insert(Db, id, doc, labels))
            /\ last' = Call("insert", id, labels, doc, id)

NextIds == InsertIds

SpecIds == InitIds /\ [][NextIds]_vars

----------------------------------------------------------------------------
(* Notions the properties are stated in.                                   *)

\* id is in the posting list stored under k
Posted(t, k, id) == k \in DOMAIN t /\ Contains(t[k], id)

\* how often x occurs in s
Count(s, x) == Cardinality({i \in 1..Len(s) : s[i] = x})

\* a list of ids, or of labels, is strictly increasing
SortedIds(s) == \A i \in 1..(Len(s) - 1) : IdLess(s[i], s[i + 1])

SortedLabels(s) == \A i \in 1..(Len(s) - 1) : LabelLess(s[i], s[i + 1])

\* sort_dedup of a label list
sort_dedup(labels) == Dedup(SortLabels(labels))

\* the well-formed labels, and the lists of them
PlainLabels == {l \in LabelUniverse : WellFormed(l)}

\* the elements of a list
Elems(s) == {s[i] : i \in 1..Len(s)}

\* the ids in the posting list stored under k; a missing list holds none
PostingSet(t, k) == IF k \in DOMAIN t THEN Elems(t[k]) ELSE {}

\* the keys under which id is posted
PostedKeys(t, id) == {k \in DOMAIN t : Contains(t[k], id)}

\* the labels that at least one stored document carries
CarriedLabels == UNION {Elems(docs_labels[id]) : id \in DOMAIN docs_labels}

\* the strings of at most two bytes over "a" and "=", and the labels of them
ShortStrings == UNION {[1..n -> {97, Sep}] : n \in 0..2}

ShortLabels == {Label(k, v) : k \in ShortStrings, v \in ShortStrings}

\* the ids posted anywhere in the two indexes, and the ids a call may name
KnownIds ==
    UNION {Elems(labels_kev[k]) : k \in DOMAIN labels_kev}
        \cup UNION {Elems(labels_vek[k]) : k \in DOMAIN labels_vek}
        \cup DOMAIN docs_labels

----------------------------------------------------------------------------
(* The invariants of the four trees.                                       *)

\* C1: for every id and every label L of docs_labels[id], id is in the
\* posting list of L in labels_kev and in labels_vek.  Stated for callers
\* that never passed a label with the separator in its key.
C1_LabelsArePosted ==
    wellformed =>
        \A id \in DOMAIN docs_labels : \A i \in 1..Len(docs_labels[id]) :
            /\ Posted(labels_kev, as_bytes(docs_labels[id][i]), id)
            /\ Posted(labels_vek, as_bytes_rev(docs_labels[id][i]), id)

\* C2: no dangling posting: an id in the posting list of L, in labels_kev or
\* in labels_vek, has a label set, and L is in it.  Stated for callers that
\* never passed a label with the separator in its key.
C2_NoDanglingPosting ==
    wellformed =>
        \A l \in PlainLabels :
            /\ \A i \in 1..Len(get_label(Db, l)) :
                \A j \in 1..Len(get_label(Db, l)[i]) :
                    LET id == get_label(Db, l)[i][j]
                    IN  /\ id \in DOMAIN docs_labels
                        /\ Contains(docs_labels[id], l)
            /\ as_bytes_rev(l) \in DOMAIN labels_vek =>
                \A j \in 1..Len(labels_vek[as_bytes_rev(l)]) :
                    LET id == labels_vek[as_bytes_rev(l)][j]
                    IN  /\ id \in DOMAIN docs_labels
                        /\ Contains(docs_labels[id], l)

C4_KevEqualsVek ==
    \A id \in DOMAIN docs_labels : \A i \in 1..Len(docs_labels[id]) :
        LET l == docs_labels[id][i]
        IN  /\ as_bytes(l) \in DOMAIN labels_kev <=> as_bytes_rev(l) \in DOMAIN labels_vek
            /\ as_bytes(l) \in DOMAIN labels_kev =>
                    labels_kev[as_bytes(l)] = labels_vek[as_bytes_rev(l)]

\* C5: no empty posting list is stored, in labels_kev or in labels_vek.
\* Stated for callers that never passed a label with the separator in its key.
C5_NoEmptyPosting ==
    wellformed =>
        /\ \A k \in DOMAIN labels_kev : Len(labels_kev[k]) >= 1
        /\ \A k \in DOMAIN labels_vek : Len(labels_vek[k]) >= 1

\* C6: every stored posting list is strictly sorted (so duplicate-free), and
\* after an insert or an add_document_labels the id is exactly once in the
\* posting lists of every label passed, however often the label was
\* passed and whether or not the document had it.
C6_PostingsSorted ==
    /\ \A k \in DOMAIN labels_kev : SortedIds(labels_kev[k])
    /\ \A k \in DOMAIN labels_vek : SortedIds(labels_vek[k])
    /\ last.op \in {"insert", "add_document_labels"} =>
        \A i \in 1..Len(last.labels) :
            /\ as_bytes(last.labels[i]) \in DOMAIN labels_kev
            /\ Count(labels_kev[as_bytes(last.labels[i])], last.id) = 1
            /\ as_bytes_rev(last.labels[i]) \in DOMAIN labels_vek
            /\ Count(labels_vek[as_bytes_rev(last.labels[i])], last.id) = 1

\* C6's case: an insert or an add_document_labels passed the same label
\* twice, and the posting list of that label holds another id as well.
C6_Witness ==
    /\ last.op \in {"insert", "add_document_labels"}
    /\ Len(last.labels) >= 2
    /\ last.labels[1] = last.labels[2]
    /\ Len(labels_kev[as_bytes(last.labels[1])]) >= 2
    /\ Count(labels_kev[as_bytes(last.labels[1])], last.id) = 1

\* C7: every stored label set is strictly sorted by (key, value), so
\* duplicate-free.  Stated for callers that never passed a label with the
\* separator in its key.
C7_DocLabelsSorted ==
    wellformed =>
        \A id \in DOMAIN docs_labels : SortedLabels(docs_labels[id])

\* C8: right after insert(payload, labels) has returned id, get(id) returns
\* payload and get_document_labels(id) returns sort_dedup(labels).  Stated
\* for callers that never passed a label with the separator in its key.
C8_RoundTrip ==
    (wellformed /\ last.op = "insert") =>
        /\ get(Db, last.ret) = last.doc
        /\ get_document_labels(Db, last.ret) = <<sort_dedup(last.labels)>>

\* C9: in every committed state, an insert of any payload and label list
\* followed at once by the delete of the id it returned leaves the four
\* trees as they were.  Stated for callers that never passed a label with
\* the separator in its key.
C9_DeleteInvertsInsert ==
    (wellformed /\ idgen < MaxInserts) =>
        \A now \in 0..MaxTime : \A labels \in LabelLists :
            (\A i \in 1..Len(labels) : WellFormed(labels[i])) =>
                delete(insert(Db, next_id(now, idgen), Payload(idgen), labels),
                       next_id(now, idgen)) = Db

\* C10: every id search_inclusive(Q) returns has a stored document and a
\* stored label set that holds every label of Q.  Stated for callers that
\* never passed a label with the separator in its key.
C10_SearchSound ==
    (wellformed /\ last.op = "search_inclusive") =>
        \A i \in 1..Len(last.ret) :
            /\ last.ret[i] \in DOMAIN documents
            /\ last.ret[i] \in DOMAIN docs_labels
            /\ \A j \in 1..Len(last.labels) :
                Contains(docs_labels[last.ret[i]], last.labels[j])

----------------------------------------------------------------------------
(* search_inclusive.                                                       *)

\* C11: search completeness: in every committed state, for every query Q
\* that names at least one label and every id whose stored label set holds
\* every label of Q, search_inclusive(Q) returns id.  Stated for callers
\* that never passed a label with the separator in its key.
C11_SearchComplete ==
    wellformed =>
        \A Q \in LabelLists : \A id \in DOMAIN docs_labels :
            (Q # <<>> /\ Elems(Q) \subseteq Elems(docs_labels[id]))
                => Contains(search_inclusive(Db, Q), id)

\* C12: search_inclusive(Q), for a query Q that names at least one label,
\* returns the intersection of the posting lists of its labels in labels_kev,
\* strictly sorted, where a missing posting list is the empty set.  Stated
\* for callers that never passed a label with the separator in its key.
C12_SearchIsIntersection ==
    (wellformed /\ last.op = "search_inclusive" /\ last.labels # <<>>) =>
        /\ SortedIds(last.ret)
        /\ Elems(last.ret) =
             {id \in KnownIds :
                \A j \in 1..Len(last.labels) :
                    id \in PostingSet(labels_kev, as_bytes(last.labels[j]))}

----------------------------------------------------------------------------
(* delete.                                                                 *)

\* C13: a delete(id) returns the payload that was stored under id, and after
\* it neither the document nor the label set of id is stored and id is in no
\* posting list; when no document was stored under id it returns None and
\* leaves the four trees as they were.
C13_DeleteRetracts ==
    [][last'.op = "delete" =>
        /\ last'.ret = get(Db, last'.id)
        /\ last'.id \notin DOMAIN documents'
        /\ last'.id \notin DOMAIN docs_labels'
        /\ last'.id \in DOMAIN documents =>
            /\ last'.ret = documents[last'.id]
            /\ PostedKeys(labels_kev', last'.id) = {}
            /\ PostedKeys(labels_vek', last'.id) = {}
        /\ last'.id \notin DOMAIN documents =>
            /\ last'.ret = None
            /\ UNCHANGED <<documents, docs_labels, labels_kev, labels_vek>>
    ]_vars

\* C13's case: a delete has removed a stored document that carried labels
\* while the posting lists still hold another id.
C13_Witness ==
    /\ last.op = "delete"
    /\ last.ret # None
    /\ last.id \notin DOMAIN documents
    /\ \E k \in DOMAIN labels_kev : labels_kev[k] # <<>>

\* C14: a delete(id) changes the posting lists only by retracting id: every
\* other stored document is in the posting list of a label, in labels_kev
\* and in labels_vek, after the delete exactly when it was before.  Stated
\* for callers that never passed a label with the separator in its key.
C14_DeleteFrame ==
    [][(wellformed /\ last'.op = "delete") =>
        \A id2 \in DOMAIN docs_labels \ {last'.id} :
            /\ PostedKeys(labels_kev', id2) = PostedKeys(labels_kev, id2)
            /\ PostedKeys(labels_vek', id2) = PostedKeys(labels_vek, id2)
    ]_vars

----------------------------------------------------------------------------
(* add_document_labels and remove_document_labels.                         *)

\* C15: an add_document_labels(id, X) for an id with no stored label set
\* leaves the four trees as they were.  Stated for callers that never passed
\* a label with the separator in its key.
C15_AddAbsentNoOp ==
    [][(wellformed' /\ last'.op = "add_document_labels"
            /\ last'.id \notin DOMAIN docs_labels) =>
        UNCHANGED <<documents, docs_labels, labels_kev, labels_vek>>
    ]_vars

\* C16: a remove_document_labels(id, X) for an id with no stored label set
\* leaves the four trees as they were.  Stated for callers that never passed
\* a label with the separator in its key.
C16_RemoveAbsentNoOp ==
    [][(wellformed' /\ last'.op = "remove_document_labels"
            /\ last'.id \notin DOMAIN docs_labels) =>
        UNCHANGED <<documents, docs_labels, labels_kev, labels_vek>>
    ]_vars

\* C17: an add_document_labels(id, X) for a stored document id leaves as its
\* label set the strictly sorted list of the labels it had and the labels of
\* X, which is sort_dedup of the two lists together; id is then in the
\* posting lists of every label L of X, so search_inclusive([L]) returns it;
\* the payloads are unchanged, and so are the label set and the posting
\* membership of every other id.
C17_AddLabels ==
    [][(last'.op = "add_document_labels" /\ last'.id \in DOMAIN docs_labels) =>
        /\ DOMAIN docs_labels' = DOMAIN docs_labels
        /\ SortedLabels(docs_labels'[last'.id])
        /\ Elems(docs_labels'[last'.id]) =
                Elems(docs_labels[last'.id]) \cup Elems(last'.labels)
        /\ docs_labels'[last'.id] =
                sort_dedup(docs_labels[last'.id] \o last'.labels)
        /\ \A i \in 1..Len(last'.labels) :
            /\ Posted(labels_kev', as_bytes(last'.labels[i]), last'.id)
            /\ Posted(labels_vek', as_bytes_rev(last'.labels[i]), last'.id)
            /\ Contains(search_inclusive(Db', <<last'.labels[i]>>), last'.id)
        /\ documents' = documents
        /\ \A id2 \in DOMAIN docs_labels \ {last'.id} :
                docs_labels'[id2] = docs_labels[id2]
        /\ \A id2 \in (KnownIds \cup KnownIds') \ {last'.id} :
            /\ PostedKeys(labels_kev', id2) = PostedKeys(labels_kev, id2)
            /\ PostedKeys(labels_vek', id2) = PostedKeys(labels_vek, id2)
    ]_vars

\* C17's case: an add_document_labels has been made on a stored document
\* that carries a label the call did not pass, while another document that
\* carries labels is stored.
C17_Witness ==
    /\ last.op = "add_document_labels"
    /\ last.labels # <<>>
    /\ last.id \in DOMAIN docs_labels
    /\ Elems(docs_labels[last.id]) # Elems(last.labels)
    /\ \E id2 \in DOMAIN docs_labels \ {last.id} : docs_labels[id2] # <<>>

\* C18: a remove_document_labels(id, X) for a stored document id leaves as
\* its label set the labels it had that are not in X; id is then in no
\* posting list of a label of X and still in the posting lists of the labels
\* it keeps, and the posting membership of every other stored document is
\* unchanged.  Stated for callers that never passed a label with the
\* separator in its key.
C18_RemoveLabels ==
    [][(wellformed' /\ last'.op = "remove_document_labels"
            /\ last'.id \in DOMAIN docs_labels) =>
        /\ DOMAIN docs_labels' = DOMAIN docs_labels
        /\ Elems(docs_labels'[last'.id]) =
                Elems(docs_labels[last'.id]) \ Elems(last'.labels)
        /\ \A i \in 1..Len(last'.labels) :
            /\ ~Posted(labels_kev', as_bytes(last'.labels[i]), last'.id)
            /\ ~Posted(labels_vek', as_bytes_rev(last'.labels[i]), last'.id)
        /\ \A l \in Elems(docs_labels'[last'.id]) :
            /\ Posted(labels_kev, as_bytes(l), last'.id)
                    => Posted(labels_kev', as_bytes(l), last'.id)
            /\ Posted(labels_vek, as_bytes_rev(l), last'.id)
                    => Posted(labels_vek', as_bytes_rev(l), last'.id)
        /\ \A id2 \in DOMAIN docs_labels \ {last'.id} :
            /\ PostedKeys(labels_kev', id2) = PostedKeys(labels_kev, id2)
            /\ PostedKeys(labels_vek', id2) = PostedKeys(labels_vek, id2)
    ]_vars

\* C19: add_document_labels is idempotent: whenever add_document_labels(id, X)
\* has been made, on a stored document or not, making it again at once
\* leaves the four trees as the first call left them.
C19_AddIdempotent ==
    last.op = "add_document_labels" =>
        add_document_labels(Db, last.id, last.labels) = Db

\* C19's case: an add_document_labels has been made on a stored document,
\* with a label whose posting list holds another id as well, and making it
\* again changes nothing.
C19_Witness ==
    /\ last.op = "add_document_labels"
    /\ last.labels # <<>>
    /\ last.id \in DOMAIN docs_labels
    /\ Len(labels_kev[as_bytes(last.labels[1])]) >= 2
    /\ add_document_labels(Db, last.id, last.labels) = Db

\* C20: remove_document_labels is idempotent: in every committed state, for
\* every id and label list X, remove_document_labels(id, X) made twice in a
\* row leaves the four trees as made once.  Stated for callers that never
\* passed a label with the separator in its key.
C20_RemoveIdempotent ==
    wellformed =>
        \A id \in CallerIds : \A X \in LabelLists :
            (\A i \in 1..Len(X) : WellFormed(X[i])) =>
                remove_document_labels(remove_document_labels(Db, id, X), id, X)
                    = remove_document_labels(Db, id, X)

----------------------------------------------------------------------------
(* Payloads and label construction.                                        *)

\* C24: the payload of a document is immutable after insert: an insert
\* stores the payload it was given under the id it returns, and every call
\* other than delete(id) and the insert that returns id (a search, a read,
\* an add_document_labels or remove_document_labels on any id, a call on
\* another id) leaves get(id) as it was.
C24_PayloadImmutable ==
    [][/\ last'.op = "insert" => get(Db', last'.ret) = last'.doc
       /\ \A id \in DOMAIN documents :
            (~(last'.op = "delete" /\ last'.id = id)
                /\ ~(last'.op = "insert" /\ last'.ret = id))
            => get(Db', id) = get(Db, id)
    ]_vars

\* C24's case: labels have been added to or removed from a stored document
\* while two documents are stored, and each still has the payload of its
\* insert.
C24_Witness ==
    /\ last.op \in {"add_document_labels", "remove_document_labels"}
    /\ last.labels # <<>>
    /\ last.id \in DOMAIN documents
    /\ Cardinality(DOMAIN documents) = 2
    /\ \A n \in 0..(idgen - 1) : \E t \in 0..MaxTime :
            get(Db, next_id(t, n)) = Payload(n)

\* C27: a Label whose key holds the separator is rejected at construction,
\* so no call is ever passed such a label.
C27_SeparatorKeyRejected ==
    \A i \in 1..Len(last.labels) : WellFormed(last.labels[i])

----------------------------------------------------------------------------
(* The reads by id, and the scans of the label indexes.                    *)

\* C26: get and get_document_labels on an id with no document return None
\* (no error), and get_many(ids) returns one entry per id of ids, in the
\* order of ids, each the id with what get(id) returns.
C26_AbsentReads ==
    /\ (last.op = "get" /\ last.id \notin DOMAIN documents) => last.ret = None
    /\ (last.op = "get_document_labels" /\ last.id \notin DOMAIN docs_labels)
            => last.ret = <<>>
    /\ last.op = "get_many" =>
        /\ Len(last.ret) = Len(last.ids)
        /\ \A i \in 1..Len(last.ids) :
                last.ret[i] = <<last.ids[i], get(Db, last.ids[i])>>

\* C26's case: get_many has been passed an id with no document and then an
\* id with a document.
C26_Witness ==
    /\ last.op = "get_many"
    /\ Len(last.ids) = 2
    /\ last.ids[1] \notin DOMAIN documents
    /\ last.ids[2] \in DOMAIN documents
    /\ last.ret[1][2] = None
    /\ last.ret[2][2] # None

\* C28: for every Label L with no separator in its key, from_bytes(as_bytes(L))
\* succeeds and gives L, also when the value holds the separator; as_bytes(L)
\* is key, "=", value and as_bytes_rev(L) is value, "=", key.  So a
\* label_name_search returns every such label whose forward form is a key
\* of labels_kev with the prefix passed.  Evaluated in the states that
\* follow a scan, the calls that parse.
C28_FromBytesRoundTrip ==
    last.op \in {"label_name_search", "label_value_search"} =>
        /\ \A l \in ShortLabels \cup LabelUniverse :
            /\ WellFormed(l) => from_bytes(as_bytes(l)) = <<l>>
            /\ Len(as_bytes(l)) = Len(l.key) + 1 + Len(l.value)
            /\ SubSeq(as_bytes(l), 1, Len(l.key)) = l.key
            /\ as_bytes(l)[Len(l.key) + 1] = Sep
            /\ SubSeq(as_bytes(l), Len(l.key) + 2, Len(as_bytes(l))) = l.value
            /\ Len(as_bytes_rev(l)) = Len(l.key) + 1 + Len(l.value)
            /\ SubSeq(as_bytes_rev(l), 1, Len(l.value)) = l.value
            /\ as_bytes_rev(l)[Len(l.value) + 1] = Sep
            /\ SubSeq(as_bytes_rev(l), Len(l.value) + 2, Len(as_bytes_rev(l)))
                    = l.key
        /\ last.op = "label_name_search" =>
            \A l \in PlainLabels :
                (as_bytes(l) \in DOMAIN labels_kev
                    /\ IsPrefix(last.prefix, as_bytes(l)))
                    => (~last.ret.err /\ Contains(last.ret.val, l))

\* C28's case: a label_name_search has parsed the forward form of a label
\* whose value holds the separator.
C28_Witness ==
    /\ last.op = "label_name_search"
    /\ as_bytes(LabAxAB) \in DOMAIN labels_kev
    /\ Contains(last.ret.val, LabAxAB)

\* C29: label_name_search(prefix) returns, without error, exactly the labels
\* carried by at least one stored document whose forward form starts with
\* prefix, each once, in the bytewise order of the forward form.  Stated for
\* callers that never passed a label with the separator in its key.
C29_NameSearchExact ==
    (wellformed /\ last.op = "label_name_search") =>
        /\ ~last.ret.err
        /\ Elems(last.ret.val) =
                {l \in CarriedLabels : IsPrefix(last.prefix, as_bytes(l))}
        /\ \A i \in 1..(Len(last.ret.val) - 1) :
                BytesLess(as_bytes(last.ret.val[i]), as_bytes(last.ret.val[i + 1]))

\* C30: every Label that label_value_search returns is, in (key, value)
\* orientation, a label that was passed to the bucket, and its reverse form
\* starts with the prefix passed.  Stated for callers that never passed a
\* label with the separator in its key, so that the labels passed are among
\* PlainLabels, whose values may hold the separator.
C30_ValueSearchLabels ==
    (wellformed /\ last.op = "label_value_search") =>
        /\ ~last.ret.err
        /\ \A i \in 1..Len(last.ret.val) :
            /\ last.ret.val[i] \in PlainLabels
            /\ IsPrefix(last.prefix, as_bytes_rev(last.ret.val[i]))

----------------------------------------------------------------------------
(* The ids of insert.                                                      *)

\* C25: every insert returns an id that no earlier insert returned: the id
\* differs from the id of the call before, it has no stored document and no
\* stored label set, and it is in no posting list.
C25_FreshIds ==
    [][last'.op = "insert" =>
        /\ last.op = "insert" => last'.ret # last.ret
        /\ last'.ret \notin DOMAIN documents
        /\ last'.ret \notin DOMAIN docs_labels
        /\ PostedKeys(labels_kev, last'.ret) = {}
        /\ PostedKeys(labels_vek, last'.ret) = {}
    ]_vars

----------------------------------------------------------------------------
(* Failing transactions.                                                   *)

\* some posting list, in labels_kev or in labels_vek, of a label of the list
\* does not decode
SomeListFails(labels) ==
    \E i \in 1..Len(labels) :
        \/ de_ids_fail(labels_kev, as_bytes(labels[i]))
        \/ de_ids_fail(labels_vek, as_bytes_rev(labels[i]))

\* a stored value that the call named by c has to decode does not decode
StepFails(c) ==
    \/ /\ c.op = "delete"
       /\ \/ c.id \in DOMAIN documents /\ de_doc_fails(documents[c.id], c.ty)
          \/ de_labels_fail(docs_labels, c.id)
          \/ c.id \in DOMAIN docs_labels /\ SomeListFails(docs_labels[c.id])
    \/ /\ c.op \in {"add_document_labels", "remove_document_labels"}
       /\ de_labels_fail(docs_labels, c.id) \/ SomeListFails(c.labels)
    \/ c.op = "insert" /\ SomeListFails(c.labels)

\* C23: when insert, delete, add_document_labels or remove_document_labels
\* has to decode a stored value that does not decode (the payload as the
\* type asked for, the label set, a posting list), the call returns the
\* error and the four trees are as before the call, whatever the closure
\* had staged; and a call returns no error otherwise.
C23_ErrorLeavesTrees ==
    [][last'.op \in {"insert", "delete", "add_document_labels",
                     "remove_document_labels"} =>
        /\ StepFails(last') <=> last'.err
        /\ last'.err =>
                UNCHANGED <<documents, docs_labels, labels_kev, labels_vek>>
    ]_vars

\* C23's case: an add_document_labels or remove_document_labels on a stored
\* document has failed on a posting list after its closure had rewritten
\* the label set.
C23_Witness ==
    /\ last.op \in {"add_document_labels", "remove_document_labels"}
    /\ last.err
    /\ last.staged
    /\ last.id \in DOMAIN docs_labels
    /\ docs_labels[last.id] # GarbageLabels

----------------------------------------------------------------------------
(* Inserts at the same time.                                               *)

\* C21: no lost update and no duplicate: once the insert of a thread has
\* returned, its id is exactly once in the posting list, in labels_kev and
\* in labels_vek, of every label it passed, whatever the other thread has
\* inserted meanwhile and however often a closure was run again; so after
\* two inserts with the same label both ids are in its lists, once each.
C21_ConcurrentInserts ==
    \A th \in Threads :
        threads[th].pc = "done" =>
            \A i \in 1..Len(threads[th].labels) :
                LET l == threads[th].labels[i]
                IN  /\ as_bytes(l) \in DOMAIN labels_kev
                    /\ Count(labels_kev[as_bytes(l)], threads[th].id) = 1
                    /\ as_bytes_rev(l) \in DOMAIN labels_vek
                    /\ Count(labels_vek[as_bytes_rev(l)], threads[th].id) = 1

\* C21's case: two inserts that ran at the same time and passed the same
\* label have both returned, one of them after its closure was run again,
\* and the posting list of the label holds both ids.
C21_Witness ==
    /\ \A th \in Threads : threads[th].pc = "done"
    /\ \E th \in Threads : threads[th].tries >= 1
    /\ threads[1].labels # <<>>
    /\ Contains(threads[2].labels, threads[1].labels[1])
    /\ threads[1].id # threads[2].id
    /\ Elems(labels_kev[as_bytes(threads[1].labels[1])])
            = {threads[1].id, threads[2].id}

\* C22: insert publishes atomically: the id a closure works with is the one
\* allocated before the transaction, also when it is run again; in every
\* committed state the id of an insert that has returned has its document,
\* its label set and its place in the posting lists of each of its labels,
\* and the id of an insert that has not returned is in none of the trees.
C22_InsertAtomic ==
    \A th \in Threads :
        /\ threads[th].id = threads[th].first
        /\ threads[th].pc = "done" =>
            /\ get(Db, threads[th].first) = threads[th].doc
            /\ get_document_labels(Db, threads[th].first) = <<threads[th].labels>>
            /\ \A i \in 1..Len(threads[th].labels) :
                /\ Posted(labels_kev, as_bytes(threads[th].labels[i]),
                          threads[th].first)
                /\ Posted(labels_vek, as_bytes_rev(threads[th].labels[i]),
                          threads[th].first)
        /\ threads[th].pc \in {"ready", "staged"} =>
            \A id \in {threads[th].first, threads[th].id} :
                /\ id \notin DOMAIN documents
                /\ id \notin DOMAIN docs_labels
                /\ PostedKeys(labels_kev, id) = {}
                /\ PostedKeys(labels_vek, id) = {}

\* C22's case: the closure of an insert with labels has staged its writes
\* twice and been sent back twice, while the other insert has returned.
C22_Witness ==
    \E th \in Threads : \E other \in Threads \ {th} :
        /\ threads[th].pc = "ready"
        /\ threads[th].tries = 2
        /\ threads[th].labels # <<>>
        /\ threads[other].pc = "done"
        /\ threads[other].labels # <<>>

----------------------------------------------------------------------------
(* The posting-list retraction and the node component of an id.            *)

\* C34: downsert retracts by whole-id equality: for every stored posting
\* list, of labels_kev or labels_vek, and every id that is stored, posted or
\* that a caller may name, downsert_label leaves exactly the entries that
\* differ from the id, in their order, and removes the key exactly when none
\* is left; for a key with no list it changes nothing.
C34_DownsertWholeId ==
    \A t \in {labels_kev, labels_vek} :
        \A id \in KnownIds \cup CallerIds :
            /\ \A k \in DOMAIN t :
                LET kept == SelectSeq(t[k], LAMBDA i : i # id)
                IN  downsert_label(t, k, id) =
                        IF kept = <<>> THEN TreeRemove(t, k)
                        ELSE TreeInsert(t, k, kept)
            /\ downsert_label(t, <<>>, id) = t

\* C37: the node component next_id derives from the counter is different
\* for different counter values: no counter value generate_id has handed
\* out gives the node component of the value it hands out next.
C37_NodeIdEmbedsCounter ==
    \A c \in 0..(idgen - 1) : node_id(c) # node_id(idgen)

----------------------------------------------------------------------------
(* search_inclusive and engine errors.                                     *)

\* C36: when the lookup of a queried label fails with an engine error, the
\* label counts as one that no document carries: search_inclusive returns
\* the empty list.
C36_LookupErrorIsEmpty ==
    (last.op = "search_inclusive" /\ last.failing # {}) => last.ret = <<>>

----------------------------------------------------------------------------
(* Calls at the same time.                                                 *)

\* the trees after the call c is executed alone on the trees db
Executed(c, db) ==
    CASE c.op = "insert" -> insert(db, c.id, c.doc, c.labels)
      [] c.op = "delete" -> delete(db, c.id)
      [] c.op = "add_document_labels" ->
            add_document_labels(db, c.id, c.labels)
      [] c.op = "remove_document_labels" ->
            remove_document_labels(db, c.id, c.labels)

\* thread th returns from its call in this step
Returns(th) == threads[th].pc = "staged" /\ threads'[th].pc = "done"

\* C35: the calls of the threads are serializable: the trees change only
\* when a call returns, and then from the committed trees to the trees that
\* executing that call alone on them gives; so the committed trees are
\* those of the calls executed one at a time in the order of their returns,
\* and a thread, which makes a call only when its last one has returned,
\* has its calls in that order as it made them.
C35_Serializable ==
    [][/\ Db' # Db => \E th \in Threads : Returns(th)
       /\ \A th \in Threads :
            Returns(th) => Db' = Executed(threads[th], Db)
       /\ \A th \in Threads :
            (threads'[th] # threads[th] /\ threads'[th].pc = "ready"
                    /\ threads'[th].tries = 0) =>
                threads[th].pc \in {"idle", "done"}
    ]_vars

\* C35's case: both threads have returned from calls that changed the
\* trees of a stored document, one a delete and one an
\* add_document_labels, and the closure of one of them was run again.
C35_Witness ==
    /\ \A th \in Threads : threads[th].pc = "done"
    /\ \E th \in Threads : threads[th].tries >= 1
    /\ {threads[th].op : th \in Threads} = {"delete", "add_document_labels"}
    /\ \A th \in Threads : threads[th].id = threads[1].id
    /\ threads[1].id \notin DOMAIN documents
    /\ labels_kev # EmptyTree

\* C38: a delete returns the payload its committed transaction removed: the
\* payload stored under the id in the trees it committed on, and absent
\* when there was none; so of two deletes of one document at the same time
\* one returns the payload and the other returns absent.
C38_DeleteReturnsRemoved ==
    [][\A th \in Threads :
        (Returns(th) /\ threads[th].op = "delete") =>
            threads'[th].output = delete_output(Db, threads[th].id)
    ]_vars

----------------------------------------------------------------------------
(* Buckets.                                                                *)

\* the trees of the Db that belong to the bucket of that name
TreesOf(ts, name) ==
    {n \in DOMAIN ts :
        \E i \in 1..Len(SuffixesNew) : n = tree_name(name, SuffixesNew[i])}

\* C31: a bucket name that holds "::" is rejected when the bucket is opened:
\* get_bucket returns an error and the Db has no tree of that bucket.
C31_ReservedNameRejected ==
    (last.op = "get_bucket" /\ FindSep(last.name) # 0) =>
        last.err /\ TreesOf(trees, last.name) = {}

\* C32: whatever buckets were opened and dropped, list_buckets returns the
\* names opened and not dropped since, each once, in ascending order.
C32_ListBuckets ==
    last.op = "list_buckets" =>
        /\ Elems(last.ret) = opened
        /\ \A i \in 1..(Len(last.ret) - 1) :
                BytesLess(last.ret[i], last.ret[i + 1])

\* C33: a drop_bucket that returns Ok, whichever of the four trees were
\* there, leaves none of them; the name is then not in list_buckets, the
\* bucket opened again under the name has four empty trees, and every tree
\* of another bucket is as before.
C33_DropBucket ==
    [][(last'.op = "drop_bucket" /\ ~last'.err) =>
        /\ TreesOf(trees', last'.name) = {}
        /\ ~Contains(list_buckets(trees'), last'.name)
        /\ \A n \in TreesOf(get_bucket(trees', last'.name), last'.name) :
                get_bucket(trees', last'.name)[n] = EmptyTree
        /\ \A n \in DOMAIN trees \ TreesOf(get_bucket(trees, last'.name),
                                            last'.name) :
                n \in DOMAIN trees' /\ trees'[n] = trees[n]
    ]_vars

====
